---- MODULE Spec2Model ----
(***************************************************************************)
(* Conduit backend (FastAPI + SQLAlchemy): the relational store and the    *)
(* request handlers layered over it.  Every request runs in its own        *)
(* session; a handler is a sequence of steps, one per awaited statement    *)
(* that reads or writes the store, so that steps of concurrent requests    *)
(* interleave.  A statement followed by session.commit() is one step: the  *)
(* row becomes visible to other sessions and the unique constraints of the *)
(* schema are decided at that point.                                       *)
(***************************************************************************)
EXTENDS Integers, Sequences, FiniteSets, TLC

\* ------------------------------------------------------------------ bounds
MaxUsers == 2           \* rows the user table may grow to
MaxClock == 3           \* the clock stops advancing here
TokenExpiration == 2    \* jwt_token_expiration_minutes of the settings
MaxTokens == 1          \* tokens the clients keep at a time
MaxArticles == 2        \* ids the article sequence may hand out
MaxComments == 2        \* ids the comment sequence may hand out

\* ------------------------------------------------------------ input values
NONE == "<None>"                    \* Python None
Emails == {"e1", "e2"}
Names == {"", "n1", "n2"}           \* str fields carry no validator: "" is accepted
Passwords == {"p1", "p2"}
Bios == {"b1"}
Images == {"i1"}
DefaultImage == "smiley-cyrus.jpeg"
SecretKey == "jwt_secret_key"
OtherKey == "attacker_key"

SeqReqs == {"r1"}                   \* one client, requests in sequence
RaceReqs == {"r1", "r2"}            \* two requests in flight

VARIABLES
    users,      \* table user: sequence of rows, the id is the index
    articles,   \* table article: sequence of rows, the id is the index
    favorites,  \* table favorite: set of <<user_id, article_id>>
    followers,  \* table follower: set of <<follower_id, following_id>>
    tags,       \* table tag: sequence of names, the id is the index
    article_tags, \* table article_tag: set of <<article_id, tag_id>>
    comments,   \* table comment: sequence of rows, the id is the index
    clock,      \* datetime.now()
    wallet,     \* tokens of earlier responses that clients still hold
    req         \* per request slot: the handler's position, inputs, locals, response

vars == <<users, articles, favorites, followers, tags, article_tags, comments, clock, wallet, req>>

\* ------------------------------------------------------------ request slots
\* the place of an article row that is deleted, or whose INSERT is not committed
NoArticle == [author_id |-> 0, title |-> NONE, slug |-> <<>>]

\* tagList absent from a patch: Optional[List[str]] = None
NoTagList == <<NONE>>

NoToken == [user_id |-> 0, username |-> NONE, exp |-> 0, key |-> NONE]

Idle ==
    [op |-> "idle", pc |-> "idle", result |-> NONE,
     caller |-> 0, caller_username |-> NONE,
     email |-> NONE, username |-> NONE, password |-> NONE, bio |-> NONE, image |-> NONE,
     cur_username |-> NONE, cur_email |-> NONE,
     uid |-> 0, token |-> NoToken,
     presented |-> NoToken, claims_user |-> 0, claims_username |-> NONE,
     slug |-> <<>>, article |-> 0, author |-> 0, count0 |-> 0, seen |-> FALSE,
     count |-> 0, favorited |-> FALSE, following |-> FALSE, staged |-> {},
     target |-> 0, lookups |-> 0,
     title |-> NONE, code |-> NONE, tags_patch |-> NoTagList, tag_list |-> {},
     session |-> "none", db |-> "none",
     comment_id |-> 0, listing |-> <<>>, total |-> 0,
     feed |-> <<>>, tag |-> NONE, author_name |-> NONE, favorited_by |-> NONE,
     limit |-> 0, offset |-> 0,
     tx_kind |-> NONE, tx_article |-> 0, tx_row |-> NoArticle]

InFlight(r) == req[r].op # "idle" /\ req[r].pc # "done"

\* ------------------------------------------------------- password hashing
\* app/services/password.py: a salted hash; verification recomputes it.
get_password_hash(password) == <<"hash", password>>

verify_password(plain_password, hashed_password) ==
    hashed_password = get_password_hash(plain_password)

\* ------------------------------------------------------------ token service
generate_jwt_token(user_id, username, now) ==
    [user_id |-> user_id, username |-> username, exp |-> now + TokenExpiration,
     key |-> SecretKey]

\* a plausible slip: decoding with verify_exp switched off
parse_jwt_token_no_expiry(token, now) ==
    IF token.key # SecretKey
    THEN [result |-> "IncorrectJWTToken", user_id |-> 0, username |-> NONE]
    ELSE [result |-> "ok", user_id |-> token.user_id, username |-> token.username]

\* AuthTokenService.parse_jwt_token: jwt.decode checks the signature under the
\* service's key and the exp claim against the clock; every InvalidTokenError
\* becomes IncorrectJWTTokenException
parse_jwt_token(token, now) ==
    IF token.key # SecretKey
    THEN [result |-> "IncorrectJWTToken", user_id |-> 0, username |-> NONE]
    ELSE IF token.exp <= now
    THEN [result |-> "IncorrectJWTToken", user_id |-> 0, username |-> NONE]
    ELSE [result |-> "ok", user_id |-> token.user_id, username |-> token.username]

\* ----------------------------------------------------------- user directory
UserIds(us) == 1..Len(us)

get_by_email_or_none(us, email) ==
    IF \E i \in UserIds(us) : us[i].email = email
    THEN CHOOSE i \in UserIds(us) : us[i].email = email
    ELSE 0

get_by_username_or_none(us, username) ==
    IF \E i \in UserIds(us) : us[i].username = username
    THEN CHOOSE i \in UserIds(us) : us[i].username = username
    ELSE 0

\* unique=True on user.username and user.email: the statement writing row `self`
\* (0 for an INSERT) with these values raises IntegrityError
UniqueViolation(us, self, username, email) ==
    \E i \in UserIds(us) : i # self /\ (us[i].username = username \/ us[i].email = email)

\* Python truthiness of an Optional[str]
Truthy(s) == s # NONE /\ s # ""

\* other tables and the clock are not touched by the user directory
UserFrame == UNCHANGED <<articles, favorites, followers, tags, article_tags, comments, clock, wallet>>

\* a plausible slip: the plaintext stored in place of its hash
NewUserRowPlain(r) ==
    [username |-> req[r].username, email |-> req[r].email,
     password_hash |-> <<"plain", req[r].password>>,
     bio |-> "", image_url |-> DefaultImage]

NewUserRow(r) ==
    [username |-> req[r].username, email |-> req[r].email,
     password_hash |-> get_password_hash(req[r].password),
     bio |-> "", image_url |-> DefaultImage]

\* sign_up_user -> UserService.add: the email lookup
SignUp(r, email, username, password) ==
    /\ req[r].op = "idle"
    /\ Len(users) + Cardinality({q \in DOMAIN req : req[q].op = "register" /\ InFlight(q)})
          < MaxUsers
    /\ req' = [req EXCEPT ![r] =
          IF get_by_email_or_none(users, email) # 0
          THEN [Idle EXCEPT !.op = "register", !.pc = "done",
                            !.result = "EmailAlreadyTaken",
                            !.email = email, !.username = username, !.password = password]
          ELSE [Idle EXCEPT !.op = "register", !.pc = "add_check_username",
                            !.email = email, !.username = username, !.password = password]]
    /\ UNCHANGED users
    /\ UserFrame

\* a plausible slip: the username check raising the email error
AddCheckUsernameWrongError(r) ==
    /\ req[r].op = "register" /\ req[r].pc = "add_check_username"
    /\ req' = [req EXCEPT ![r] =
          IF get_by_username_or_none(users, req[r].username) # 0
          THEN [@ EXCEPT !.pc = "done", !.result = "EmailAlreadyTaken"]
          ELSE [@ EXCEPT !.pc = "add_insert"]]
    /\ UNCHANGED users
    /\ UserFrame

\* UserService.add: the username lookup
AddCheckUsername(r) ==
    /\ req[r].op = "register" /\ req[r].pc = "add_check_username"
    /\ req' = [req EXCEPT ![r] =
          IF get_by_username_or_none(users, req[r].username) # 0
          THEN [@ EXCEPT !.pc = "done", !.result = "UserNameAlreadyTaken"]
          ELSE [@ EXCEPT !.pc = "add_insert"]]
    /\ UNCHANGED users
    /\ UserFrame

\* UserService.add: INSERT ... RETURNING, commit; then the token of sign_up_user
AddInsert(r) ==
    /\ req[r].op = "register" /\ req[r].pc = "add_insert"
    /\ IF UniqueViolation(users, 0, req[r].username, req[r].email)
       THEN /\ req' = [req EXCEPT ![r] = [@ EXCEPT !.pc = "done", !.result = "IntegrityError"]]
            /\ UNCHANGED users
       ELSE /\ users' = Append(users, NewUserRow(r))
            /\ req' = [req EXCEPT ![r] =
                  [@ EXCEPT !.pc = "done", !.result = "ok", !.uid = Len(users) + 1,
                            !.token = generate_jwt_token(Len(users) + 1, req[r].username,
                                                         clock)]]
    /\ UserFrame

\* UserService.get_by_email: the user id, 0 for UserNotFoundException
get_by_email(us, email) == get_by_email_or_none(us, email)

\* a plausible slip: UserNotFoundException left to propagate
sign_in_user_leaking(us, email, password, now) ==
    LET id == get_by_email(us, email) IN
    IF id = 0
    THEN [result |-> "UserNotFound", uid |-> 0, token |-> NoToken]
    ELSE IF ~verify_password(password, us[id].password_hash)
    THEN [result |-> "IncorrectLoginInput", uid |-> 0, token |-> NoToken]
    ELSE [result |-> "ok", uid |-> id,
          token |-> generate_jwt_token(id, us[id].username, now)]

\* UserAuthService.sign_in_user: the outcome and the token of the response
sign_in_user(us, email, password, now) ==
    LET id == get_by_email(us, email) IN
    IF id = 0
    THEN [result |-> "IncorrectLoginInput", uid |-> 0, token |-> NoToken]
    ELSE IF ~verify_password(password, us[id].password_hash)
    THEN [result |-> "IncorrectLoginInput", uid |-> 0, token |-> NoToken]
    ELSE [result |-> "ok", uid |-> id,
          token |-> generate_jwt_token(id, us[id].username, now)]

SignIn(r, email, password) ==
    /\ req[r].op = "idle"
    /\ LET out == sign_in_user(users, email, password, clock) IN
       req' = [req EXCEPT ![r] =
          [Idle EXCEPT !.op = "login", !.pc = "done", !.result = out.result,
                       !.email = email, !.password = password,
                       !.uid = out.uid, !.token = out.token]]
    /\ UNCHANGED users
    /\ UserFrame

\* UserService.update: get_user_by_id of the caller
UpdateStart(r, user_id, username, email, password, bio, image) ==
    /\ req[r].op = "idle"
    /\ user_id \in UserIds(users)
    /\ req' = [req EXCEPT ![r] =
          [Idle EXCEPT !.op = "update", !.pc = "update_check_username",
                       !.caller = user_id,
                       !.username = username, !.email = email, !.password = password,
                       !.bio = bio, !.image = image,
                       !.cur_username = users[user_id].username,
                       !.cur_email = users[user_id].email]]
    /\ UNCHANGED users
    /\ UserFrame

\* UserService.update: `if update_item.username and update_item.username != current`
UpdateCheckUsername(r) ==
    /\ req[r].op = "update" /\ req[r].pc = "update_check_username"
    /\ req' = [req EXCEPT ![r] =
          IF /\ Truthy(req[r].username)
             /\ req[r].username # req[r].cur_username
             /\ get_by_username_or_none(users, req[r].username) # 0
          THEN [@ EXCEPT !.pc = "done", !.result = "UserNameAlreadyTaken"]
          ELSE [@ EXCEPT !.pc = "update_check_email"]]
    /\ UNCHANGED users
    /\ UserFrame

\* UserService.update: `if update_item.email and update_item.email != current`
UpdateCheckEmail(r) ==
    /\ req[r].op = "update" /\ req[r].pc = "update_check_email"
    /\ req' = [req EXCEPT ![r] =
          IF /\ Truthy(req[r].email)
             /\ req[r].email # req[r].cur_email
             /\ get_by_email_or_none(users, req[r].email) # 0
          THEN [@ EXCEPT !.pc = "done", !.result = "EmailAlreadyTaken"]
          ELSE [@ EXCEPT !.pc = "update_write"]]
    /\ UNCHANGED users
    /\ UserFrame

\* the row UPDATE ... SET writes: a column is set when its field `is not None`
UpdatedRow(row, username, email, password, bio, image) ==
    [username |-> IF username # NONE THEN username ELSE row.username,
     email |-> IF email # NONE THEN email ELSE row.email,
     password_hash |-> IF password # NONE THEN get_password_hash(password)
                       ELSE row.password_hash,
     bio |-> IF bio # NONE THEN bio ELSE row.bio,
     image_url |-> IF image # NONE THEN image ELSE row.image_url]

\* UserService.update: UPDATE ... RETURNING, commit
UpdateWrite(r) ==
    /\ req[r].op = "update" /\ req[r].pc = "update_write"
    /\ LET id == req[r].caller
           row == UpdatedRow(users[id], req[r].username, req[r].email, req[r].password,
                             req[r].bio, req[r].image)
       IN IF UniqueViolation(users, id, row.username, row.email)
          THEN /\ req' = [req EXCEPT ![r] =
                     [@ EXCEPT !.pc = "done", !.result = "IntegrityError"]]
               /\ UNCHANGED users
          ELSE /\ users' = [users EXCEPT ![id] = row]
               /\ req' = [req EXCEPT ![r] =
                     [@ EXCEPT !.pc = "done", !.result = "ok", !.uid = id]]
    /\ UserFrame

\* the response is sent; the slot takes the next request
Respond(r) ==
    /\ req[r].pc = "done"
    /\ req' = [req EXCEPT ![r] = Idle]
    /\ UNCHANGED <<users, articles, favorites, followers, tags, article_tags, comments, clock, wallet>>

\* ------------------------------------------- specification: user directory
Init ==
    /\ users = <<>>
    /\ articles = <<>>
    /\ favorites = {}
    /\ followers = {}
    /\ tags = <<>>
    /\ article_tags = {}
    /\ comments = <<>>
    /\ clock = 0
    /\ wallet = {}
    /\ req = [r \in RaceReqs |-> Idle]

Patch(S) == S \cup {NONE}

Next ==
    \E r \in SeqReqs :
        \/ \E e \in Emails, n \in Names, p \in Passwords : SignUp(r, e, n, p)
        \/ AddCheckUsername(r)
        \/ AddInsert(r)
        \/ \E e \in Emails, p \in Passwords : SignIn(r, e, p)
        \/ \E id \in 1..MaxUsers, n \in Patch(Names), e \in Patch(Emails),
              p \in Patch(Passwords), b \in Patch(Bios), i \in Patch(Images) :
                 UpdateStart(r, id, n, e, p, b, i)
        \/ UpdateCheckUsername(r)
        \/ UpdateCheckEmail(r)
        \/ UpdateWrite(r)
        \/ Respond(r)

Spec == Init /\ [][Next]_vars

\* two requests in flight: register and update of username/email interleave
NextUserRace ==
    \E r \in RaceReqs :
        \/ \E e \in Emails, n \in Names : SignUp(r, e, n, "p1")
        \/ AddCheckUsername(r)
        \/ AddInsert(r)
        \/ \E id \in 1..MaxUsers, n \in Patch(Names), e \in Patch(Emails) :
                 UpdateStart(r, id, n, e, NONE, NONE, NONE)
        \/ UpdateCheckUsername(r)
        \/ UpdateCheckEmail(r)
        \/ UpdateWrite(r)
        \/ Respond(r)

SpecUserRace == Init /\ [][NextUserRace]_vars

\* -------------------------------------------- specification: token service
\* a string that is no JWT at all
Malformed == [user_id |-> 0, username |-> NONE, exp |-> 0, key |-> "malformed"]

\* tokens signed with a key that is not the service's, with any claims
Forged(us) ==
    {[user_id |-> u, username |-> us[u].username, exp |-> MaxClock + TokenExpiration + 1,
      key |-> OtherKey] : u \in UserIds(us)}

\* get_current_user: 401 for IncorrectJWTTokenException, else the user of the claims
get_current_user(us, token, now) ==
    LET payload == parse_jwt_token(token, now) IN
    IF payload.result # "ok"
    THEN [result |-> "Unauthorized", id |-> 0, payload |-> payload]
    ELSE IF payload.user_id \notin UserIds(us)
    THEN [result |-> "UserNotFound", id |-> 0, payload |-> payload]
    ELSE [result |-> "ok", id |-> payload.user_id, payload |-> payload]

\* PUT /user behind Depends(get_current_user): the handler runs only for a caller
\* the dependency resolved
AuthUpdate(r, token, username, email, password, bio, image) ==
    LET cu == get_current_user(users, token, clock) IN
    /\ req[r].op = "idle"
    /\ IF cu.result = "ok"
       THEN /\ req' = [req EXCEPT ![r] =
                  [Idle EXCEPT !.op = "update", !.pc = "update_check_username",
                               !.caller = cu.id,
                               !.username = username, !.email = email,
                               !.password = password, !.bio = bio, !.image = image,
                               !.cur_username = users[cu.id].username,
                               !.cur_email = users[cu.id].email,
                               !.presented = token,
                               !.claims_user = cu.payload.user_id,
                               !.claims_username = cu.payload.username]]
       ELSE /\ req' = [req EXCEPT ![r] =
                  [Idle EXCEPT !.op = "update", !.pc = "done", !.result = cu.result,
                               !.username = username, !.email = email,
                               !.password = password, !.bio = bio, !.image = image,
                               !.presented = token]]
    /\ UNCHANGED users
    /\ UserFrame

\* the client keeps the token of a register or login response
Keep(r) ==
    /\ req[r].pc = "done" /\ req[r].token # NoToken
    /\ Cardinality(wallet) < MaxTokens
    /\ wallet' = wallet \cup {req[r].token}
    /\ req' = [req EXCEPT ![r] = Idle]
    /\ UNCHANGED <<users, articles, favorites, followers, tags, article_tags, comments, clock>>

\* the client forgets a token
Drop(t) ==
    /\ t \in wallet
    /\ wallet' = wallet \ {t}
    /\ UNCHANGED <<users, articles, favorites, followers, tags, article_tags, comments, clock, req>>

Tick ==
    /\ clock < MaxClock
    /\ clock' = clock + 1
    /\ UNCHANGED <<users, articles, favorites, followers, tags, article_tags, comments, wallet, req>>

TokenSignUps == {<<"e1", "n1", "p1">>, <<"e2", "n2", "p1">>}

NextToken ==
    \/ Tick
    \/ \E t \in wallet : Drop(t)
    \/ \E r \in SeqReqs :
        \/ \E u \in TokenSignUps : SignUp(r, u[1], u[2], u[3])
        \/ AddCheckUsername(r)
        \/ AddInsert(r)
        \/ \E e \in Emails : SignIn(r, e, "p1")
        \/ \E t \in wallet \cup Forged(users) \cup {Malformed},
              n \in Patch({"n2"}), b \in Patch(Bios) :
                 AuthUpdate(r, t, n, NONE, NONE, b, NONE)
        \/ UpdateCheckUsername(r)
        \/ UpdateCheckEmail(r)
        \/ UpdateWrite(r)
        \/ Keep(r)
        \/ Respond(r)

SpecToken == Init /\ [][NextToken]_vars

\* ------------------------------------------------------------ article store
\* A slug is its hyphen-separated parts: the slugified title, then the code.
\* app/core/slug.py: the unique part is what follows the last hyphen.
get_slug_unique_part(slug) == slug[Len(slug)]

\* Article.slug.contains(part): the part occurs in the slug
Contains(slug, part) == \E k \in 1..Len(slug) : slug[k] = part

ArticleIds(arts) == 1..Len(arts)

\* the rows get_by_slug's WHERE selects; session.scalar returns the first of them
\* and the query states no order
SlugMatches(arts, slug) ==
    {a \in ArticleIds(arts) :
        arts[a].slug = slug \/ Contains(arts[a].slug, get_slug_unique_part(slug))}

\* FavoriteService.count
favorite_count(favs, article_id) ==
    Cardinality({f \in favs : f[2] = article_id})

\* FavoriteService.exists
favorite_exists(favs, user_id, article_id) == <<user_id, article_id>> \in favs

\* FollowerService.exists
follower_exists(fols, follower_id, following_id) == <<follower_id, following_id>> \in fols

\* _build_article_dto_from_db_result on an ArticleDTO: the count of the DTO is kept
\* unless it is 0 and favorited is False (the DTO of get_by_slug is never favorited)
build_favorites_count(count0, favs, article_id) ==
    IF count0 = 0 THEN favorite_count(favs, article_id) ELSE count0

ArticleFrame == UNCHANGED <<users, articles, followers, tags, article_tags, comments, clock, wallet>>

\* ArticleService.get_by_slug: the article and the favorites_count of its DTO
GetBySlug(r, op, caller, slug) ==
    /\ req[r].op = "idle"
    /\ IF SlugMatches(articles, slug) = {}
       THEN req' = [req EXCEPT ![r] =
               [Idle EXCEPT !.op = op, !.pc = "done", !.result = "ArticleNotFound",
                            !.caller = caller, !.slug = slug]]
       ELSE \E a \in SlugMatches(articles, slug) :
               req' = [req EXCEPT ![r] =
                  [Idle EXCEPT !.op = op, !.pc = "exists",
                               !.caller = caller, !.slug = slug, !.article = a,
                               !.author = articles[a].author_id,
                               !.count0 = favorite_count(favorites, a)]]
    /\ UNCHANGED favorites
    /\ ArticleFrame

\* favorite_article: get_by_slug
FavoriteStart(r, caller, slug) == GetBySlug(r, "favorite", caller, slug)

\* a plausible slip: the insert not guarded by the lookup
FavoriteExistsUnguarded(r) ==
    /\ req[r].op = "favorite" /\ req[r].pc = "exists"
    /\ req' = [req EXCEPT ![r] = [@ EXCEPT !.seen = FALSE, !.pc = "create"]]
    /\ UNCHANGED favorites
    /\ ArticleFrame

\* favorite_article: `if not await favorite_service.exists(...)`
FavoriteExists(r) ==
    /\ req[r].op = "favorite" /\ req[r].pc = "exists"
    /\ LET seen == favorite_exists(favorites, req[r].caller, req[r].article) IN
       req' = [req EXCEPT ![r] =
          [@ EXCEPT !.seen = seen, !.pc = IF seen THEN "respond" ELSE "create"]]
    /\ UNCHANGED favorites
    /\ ArticleFrame

\* FavoriteService.create: INSERT, commit; (user_id, article_id) is the primary key
FavoriteCreate(r) ==
    /\ req[r].op = "favorite" /\ req[r].pc = "create"
    /\ IF <<req[r].caller, req[r].article>> \in favorites
       THEN /\ req' = [req EXCEPT ![r] =
                  [@ EXCEPT !.pc = "done", !.result = "IntegrityError"]]
            /\ UNCHANGED favorites
       ELSE /\ favorites' = favorites \cup {<<req[r].caller, req[r].article>>}
            /\ req' = [req EXCEPT ![r] = [@ EXCEPT !.pc = "respond"]]
    /\ ArticleFrame

\* a plausible slip: the response left with the count the DTO was built with
FavoriteRespondStale(r) ==
    /\ req[r].op = "favorite" /\ req[r].pc = "respond"
    /\ req' = [req EXCEPT ![r] =
          [@ EXCEPT !.pc = "done", !.result = "ok", !.favorited = TRUE,
                    !.count = build_favorites_count(req[r].count0, favorites,
                                                    req[r].article)]]
    /\ UNCHANGED favorites
    /\ ArticleFrame

\* favorite_article: the DTO is rebuilt, then favorited = True and
\* favoritesCount = favorite_service.count(...)
FavoriteRespond(r) ==
    /\ req[r].op = "favorite" /\ req[r].pc = "respond"
    /\ req' = [req EXCEPT ![r] =
          [@ EXCEPT !.pc = "done", !.result = "ok", !.favorited = TRUE,
                    !.count = favorite_count(favorites, req[r].article)]]
    /\ UNCHANGED favorites
    /\ ArticleFrame

\* unfavorite_article: get_by_slug; the caller is get_current_user_or_none (0: None)
UnfavoriteStart(r, caller, slug) == GetBySlug(r, "unfavorite", caller, slug)

\* unfavorite_article: `if await favorite_service.exists(session, current_user.id, ...)`
UnfavoriteExists(r) ==
    /\ req[r].op = "unfavorite" /\ req[r].pc = "exists"
    /\ IF req[r].caller = 0
       THEN req' = [req EXCEPT ![r] = [@ EXCEPT !.pc = "done", !.result = "AttributeError"]]
       ELSE LET seen == favorite_exists(favorites, req[r].caller, req[r].article) IN
            req' = [req EXCEPT ![r] =
               [@ EXCEPT !.seen = seen, !.pc = IF seen THEN "delete" ELSE "respond"]]
    /\ UNCHANGED favorites
    /\ ArticleFrame

\* FavoriteService.delete: DELETE ... WHERE, commit
UnfavoriteDelete(r) ==
    /\ req[r].op = "unfavorite" /\ req[r].pc = "delete"
    /\ favorites' = favorites \ {<<req[r].caller, req[r].article>>}
    /\ req' = [req EXCEPT ![r] = [@ EXCEPT !.pc = "respond"]]
    /\ ArticleFrame

\* unfavorite_article: favorited = False, favoritesCount = favorite_service.count(...)
UnfavoriteRespond(r) ==
    /\ req[r].op = "unfavorite" /\ req[r].pc = "respond"
    /\ req' = [req EXCEPT ![r] =
          [@ EXCEPT !.pc = "done", !.result = "ok", !.favorited = FALSE,
                    !.count = favorite_count(favorites, req[r].article)]]
    /\ UNCHANGED favorites
    /\ ArticleFrame

\* get_article: get_by_slug
\* get_article: Depends(get_current_user) ends a request without a valid token
\* before the handler runs (caller 0); otherwise get_by_slug
GetArticleStart(r, caller, slug) ==
    IF caller = 0
    THEN /\ req[r].op = "idle"
         /\ req' = [req EXCEPT ![r] =
               [Idle EXCEPT !.op = "get_article", !.pc = "done", !.slug = slug,
                            !.result = "Unauthorized"]]
         /\ UNCHANGED favorites
         /\ ArticleFrame
    ELSE GetBySlug(r, "get_article", caller, slug)

\* get_article: the DTO is rebuilt; following and favorited are looked up for the
\* current user
GetArticleRespond(r) ==
    /\ req[r].op = "get_article" /\ req[r].pc = "exists"
    /\ req' = [req EXCEPT ![r] =
          [@ EXCEPT !.pc = "done", !.result = "ok",
                    !.count = build_favorites_count(req[r].count0, favorites,
                                                    req[r].article),
                    !.following = follower_exists(followers, req[r].caller,
                                                  req[r].author),
                    !.favorited = favorite_exists(favorites, req[r].caller,
                                                  req[r].article)]]
    /\ UNCHANGED favorites
    /\ ArticleFrame

\* ------------------------------------------- specification: favorite index
\* a store two registers and create_article calls lead to: two articles of the same
\* title by different authors, a third of another title
StoredUser(username, email) ==
    [username |-> username, email |-> email,
     password_hash |-> get_password_hash("p1"), bio |-> "", image_url |-> DefaultImage]

StoredArticle(author_id, title, code) ==
    [author_id |-> author_id, title |-> title, slug |-> <<title, code>>]

InitFavorite ==
    /\ users = <<StoredUser("n1", "e1"), StoredUser("n2", "e2")>>
    /\ articles = <<StoredArticle(1, "t1", "c1"), StoredArticle(2, "t1", "c2")>>
    /\ favorites = {}
    /\ followers = {}
    /\ tags = <<>>
    /\ article_tags = {}
    /\ comments = <<>>
    /\ clock = 0
    /\ wallet = {}
    /\ req = [r \in RaceReqs |-> Idle]

\* slugs a client may ask for: a stored slug, a title alone, a slug of no article
SlugInputs == {<<"t1", "c1">>, <<"t1", "c2">>, <<"t1">>, <<"t9", "c9">>}

NextFavorite ==
    \E r \in SeqReqs :
        \/ \E u \in UserIds(users), s \in SlugInputs : FavoriteStart(r, u, s)
        \/ FavoriteExists(r)
        \/ FavoriteCreate(r)
        \/ FavoriteRespond(r)
        \/ \E u \in UserIds(users) \cup {0}, s \in SlugInputs : UnfavoriteStart(r, u, s)
        \/ UnfavoriteExists(r)
        \/ UnfavoriteDelete(r)
        \/ UnfavoriteRespond(r)
        \/ \E u \in UserIds(users), s \in SlugInputs : GetArticleStart(r, u, s)
        \/ GetArticleRespond(r)
        \/ Respond(r)

SpecFavorite == InitFavorite /\ [][NextFavorite]_vars

\* two requests in flight on the favorite index
NextFavoriteRace ==
    \E r \in RaceReqs :
        \/ \E u \in UserIds(users), s \in SlugInputs : FavoriteStart(r, u, s)
        \/ FavoriteExists(r)
        \/ FavoriteCreate(r)
        \/ FavoriteRespond(r)
        \/ \E u \in UserIds(users), s \in SlugInputs : UnfavoriteStart(r, u, s)
        \/ UnfavoriteExists(r)
        \/ UnfavoriteDelete(r)
        \/ UnfavoriteRespond(r)
        \/ Respond(r)

SpecFavoriteRace == InitFavorite /\ [][NextFavoriteRace]_vars

\* --------------------------------------------------------------- follow graph
FollowFrame == UNCHANGED <<users, articles, favorites, tags, article_tags, comments, clock, wallet>>

\* follow_username / unfollow_username: get_current_user reads the caller's row
FollowStart(r, op, caller, username) ==
    /\ req[r].op = "idle"
    /\ op \in {"follow", "unfollow"}
    /\ caller \in UserIds(users)
    /\ req' = [req EXCEPT ![r] =
          [Idle EXCEPT !.op = op, !.pc = "own_profile", !.session = "open",
                       !.caller = caller,
                       !.caller_username = users[caller].username,
                       !.target = username]]
    /\ UNCHANGED followers
    /\ FollowFrame

\* a plausible slip: the target is looked up before the names are compared
FollowOwnProfileAfterLookup(r) ==
    /\ req[r].op \in {"follow", "unfollow"} /\ req[r].pc = "own_profile"
    /\ req' = [req EXCEPT ![r] =
          IF get_by_username_or_none(users, req[r].target) = 0
          THEN [@ EXCEPT !.pc = "exit", !.result = "UserNotFound",
                         !.lookups = @ + 1]
          ELSE IF req[r].target = req[r].caller_username
          THEN [@ EXCEPT !.pc = "exit", !.result = "OwnProfileFollowing",
                         !.lookups = @ + 1]
          ELSE [@ EXCEPT !.pc = "relation", !.lookups = @ + 1,
                         !.uid = get_by_username_or_none(users, req[r].target)]]
    /\ UNCHANGED followers
    /\ FollowFrame

\* follow_user / unfollow_user: `if username == current_user.username: raise`
FollowOwnProfile(r) ==
    /\ req[r].op \in {"follow", "unfollow"} /\ req[r].pc = "own_profile"
    /\ req' = [req EXCEPT ![r] =
          IF req[r].target = req[r].caller_username
          THEN [@ EXCEPT !.pc = "exit", !.result = "OwnProfileFollowing"]
          ELSE [@ EXCEPT !.pc = "lookup"]]
    /\ UNCHANGED followers
    /\ FollowFrame

\* follow_user / unfollow_user: the target user is read by username
FollowLookup(r) ==
    /\ req[r].op \in {"follow", "unfollow"} /\ req[r].pc = "lookup"
    /\ req' = [req EXCEPT ![r] =
          IF get_by_username_or_none(users, req[r].target) = 0
          THEN [@ EXCEPT !.pc = "exit", !.result = "UserNotFound", !.lookups = @ + 1]
          ELSE [@ EXCEPT !.pc = "relation", !.lookups = @ + 1,
                         !.uid = get_by_username_or_none(users, req[r].target)]]
    /\ UNCHANGED followers
    /\ FollowFrame

\* a plausible slip: the relationship written and committed as FollowerService does
FollowRelationCommitted(r) ==
    /\ req[r].op \in {"follow", "unfollow"} /\ req[r].pc = "relation"
    /\ LET seen == follower_exists(followers, req[r].caller, req[r].uid)
           edge == <<req[r].caller, req[r].uid>> IN
       IF req[r].op = "follow" /\ seen
       THEN /\ req' = [req EXCEPT ![r] =
                  [@ EXCEPT !.pc = "exit", !.result = "ProfileAlreadyFollowed"]]
            /\ UNCHANGED followers
       ELSE IF req[r].op = "unfollow" /\ ~seen
       THEN /\ req' = [req EXCEPT ![r] =
                  [@ EXCEPT !.pc = "exit", !.result = "ProfileNotFollowed"]]
            /\ UNCHANGED followers
       ELSE /\ req' = [req EXCEPT ![r] = [@ EXCEPT !.pc = "profile", !.seen = seen]]
            /\ followers' = IF req[r].op = "follow" THEN followers \cup {edge}
                                                   ELSE followers \ {edge}
    /\ FollowFrame

\* follow_user / unfollow_user: `async with self._database_service.get_db()` opens a
\* second session; _check_following, then the raise or the INSERT / DELETE, which is
\* executed in that session and not committed. The INSERT gives follower_id and
\* following_id and no created_at: where the table has the column NOT NULL, as the
\* model declares it, the statement fails; the migration is not part of the source,
\* so both outcomes are kept
FollowRelation(r) ==
    /\ req[r].op \in {"follow", "unfollow"} /\ req[r].pc = "relation"
    /\ LET seen == follower_exists(followers, req[r].caller, req[r].uid) IN
       \E not_null \in BOOLEAN :
       req' = [req EXCEPT ![r] =
          IF req[r].op = "follow" /\ seen
          THEN [@ EXCEPT !.pc = "db_exit", !.db = "open",
                         !.result = "ProfileAlreadyFollowed"]
          ELSE IF req[r].op = "unfollow" /\ ~seen
          THEN [@ EXCEPT !.pc = "db_exit", !.db = "open",
                         !.result = "ProfileNotFollowed"]
          ELSE IF req[r].op = "follow" /\ not_null
          THEN [@ EXCEPT !.pc = "db_exit", !.db = "open", !.seen = seen,
                         !.result = "IntegrityError"]
          ELSE [@ EXCEPT !.pc = "db_exit", !.db = "open", !.seen = seen,
                         !.staged = {<<req[r].caller, req[r].uid>>}]]
    /\ UNCHANGED followers
    /\ FollowFrame

\* DatabaseService.get_db: `async with self.db_session() as db: yield db` closes the
\* session when the block is left, by return or by exception, and never commits:
\* what was executed in it is discarded
FollowDbExit(r) ==
    /\ req[r].op \in {"follow", "unfollow"} /\ req[r].pc = "db_exit"
    /\ req' = [req EXCEPT ![r] =
          [@ EXCEPT !.pc = IF req[r].result = NONE THEN "profile" ELSE "exit",
                    !.db = "closed", !.staged = {}]]
    /\ UNCHANGED followers
    /\ FollowFrame

\* follow_username / unfollow_username: get_profile_by_username for the response
FollowProfile(r) ==
    /\ req[r].op \in {"follow", "unfollow"} /\ req[r].pc = "profile"
    /\ LET id == get_by_username_or_none(users, req[r].target) IN
       req' = [req EXCEPT ![r] =
          IF id = 0
          THEN [@ EXCEPT !.pc = "exit", !.result = "ProfileNotFound", !.lookups = @ + 1]
          ELSE [@ EXCEPT !.pc = "exit", !.result = "ok", !.lookups = @ + 1,
                         !.following = follower_exists(followers, req[r].caller, id)]]
    /\ UNCHANGED followers
    /\ FollowFrame

\* usernames a profile path may carry: of a stored user or of nobody
FollowTargets == {"n1", "n2", "n9"}

\* ------------------------------------------------------- article mutations
\* app/core/slug.py: the slugified title, a hyphen, a random short code
make_slug_from_title(title, code) == <<title, code>>

\* app/core/slug.py: the slugified title, a hyphen, the code given
make_slug_from_title_and_code(title, code) == <<title, code>>

Range(seq) == {seq[k] : k \in 1..Len(seq)}

RECURSIVE Distinct(_)
\* the elements of seq in order, each once
Distinct(seq) ==
    IF seq = <<>> THEN <<>>
    ELSE LET front == Distinct(SubSeq(seq, 1, Len(seq) - 1))
             last == seq[Len(seq)]
         IN IF last \in Range(front) THEN front ELSE Append(front, last)

\* INSERT INTO tag ... ON CONFLICT DO NOTHING RETURNING: the rows the statement
\* inserted; a name already in the table, or repeated in the statement, gives none
insert_tags_returning(catalog, names) ==
    Distinct(SelectSeq(names, LAMBDA n : n \notin Range(catalog)))

\* the tag table after INSERT ... ON CONFLICT DO NOTHING of the names
insert_tags(catalog, names) == catalog \o insert_tags_returning(catalog, names)

TagId(catalog, name) == CHOOSE k \in 1..Len(catalog) : catalog[k] = name

\* SELECT Tag JOIN ArticleTag: the names of the tags linked to the article
article_tag_names(catalog, links, article_id) ==
    {catalog[l[2]] : l \in {x \in links : x[1] = article_id}}

\* the unique index on article.slug, seen by a statement that writes `slug` to the
\* row `self` (0: a new row)
SlugTaken(arts, self, slug) ==
    \E a \in ArticleIds(arts) : a # self /\ arts[a].slug = slug

\* ON DELETE CASCADE of article_tag.article_id, favorite.article_id, comment.article_id
CascadeLinks(links, article_id) == {l \in links : l[1] # article_id}
CascadeFavorites(favs, article_id) == {f \in favs : f[2] # article_id}
NoComment == [article_id |-> 0, author_id |-> 0]
CascadeComments(cs, article_id) ==
    [k \in 1..Len(cs) |-> IF cs[k].article_id = article_id THEN NoComment ELSE cs[k]]

MutationFrame == UNCHANGED <<users, followers, clock, wallet>>

\* create_article, ArticleService.add: INSERT INTO article ... RETURNING in the
\* request's session; the id comes from the sequence, the row is not committed
CreateArticleAdd(r, caller, title, code, tag_list) ==
    /\ req[r].op = "idle"
    /\ caller \in UserIds(users)
    /\ Len(articles) < MaxArticles
    /\ LET slug == make_slug_from_title(title, code)
           start == [Idle EXCEPT !.op = "create_article", !.session = "open",
                                 !.caller = caller, !.title = title, !.code = code,
                                 !.slug = slug, !.tags_patch = tag_list]
       IN IF SlugTaken(articles, 0, slug)
          THEN /\ req' = [req EXCEPT ![r] =
                     [start EXCEPT !.pc = "exit", !.result = "IntegrityError"]]
               /\ UNCHANGED articles
          ELSE /\ articles' = Append(articles, NoArticle)
               /\ req' = [req EXCEPT ![r] =
                     [start EXCEPT !.pc = "add_many", !.article = Len(articles) + 1,
                                   !.tx_kind = "insert",
                                   !.tx_article = Len(articles) + 1,
                                   !.tx_row = [author_id |-> caller, title |-> title,
                                               slug |-> slug]]]
    /\ UNCHANGED <<favorites, tags, article_tags, comments>>
    /\ MutationFrame

\* a plausible slip: the article row committed by add, before the tags are linked
CreateArticleAddManyAfterCommit(r) ==
    /\ req[r].op = "create_article" /\ req[r].pc = "add_many"
    /\ LET names == req[r].tags_patch
           returned == insert_tags_returning(tags, names)
           catalog == insert_tags(tags, names)
       IN /\ articles' = [articles EXCEPT ![req[r].tx_article] = req[r].tx_row]
          /\ IF returned = <<>>
             THEN /\ req' = [req EXCEPT ![r] =
                        [@ EXCEPT !.pc = "exit", !.result = "EmptyValuesError",
                                  !.tx_kind = NONE]]
                  /\ UNCHANGED <<tags, article_tags>>
             ELSE /\ tags' = catalog
                  /\ article_tags' = article_tags \cup
                        {<<req[r].tx_article, TagId(catalog, n)>> : n \in Range(returned)}
                  /\ req' = [req EXCEPT ![r] =
                        [@ EXCEPT !.pc = "exit", !.result = "ok", !.tx_kind = NONE]]
    /\ UNCHANGED <<favorites, comments>>
    /\ MutationFrame

\* create_article, ArticleTagService.add_many: INSERT INTO tag ... ON CONFLICT DO
\* NOTHING RETURNING, INSERT INTO article_tag for the rows returned, commit.
\* values([]) gives a statement no VALUES: the INSERT of a row of defaults fails on
\* the NOT NULL columns, for an empty tag list and for an empty list of returned rows.
CreateArticleAddMany(r) ==
    /\ req[r].op = "create_article" /\ req[r].pc = "add_many"
    /\ LET names == req[r].tags_patch
           returned == insert_tags_returning(tags, names)
           catalog == insert_tags(tags, names)
       IN IF returned = <<>>
          THEN /\ req' = [req EXCEPT ![r] =
                     [@ EXCEPT !.pc = "exit", !.result = "EmptyValuesError"]]
               /\ UNCHANGED <<articles, tags, article_tags>>
          ELSE /\ articles' = [articles EXCEPT ![req[r].tx_article] = req[r].tx_row]
               /\ tags' = catalog
               /\ article_tags' = article_tags \cup
                     {<<req[r].tx_article, TagId(catalog, n)>> : n \in Range(returned)}
               /\ req' = [req EXCEPT ![r] =
                     [@ EXCEPT !.pc = "exit", !.result = "ok", !.tx_kind = NONE]]
    /\ UNCHANGED <<favorites, comments>>
    /\ MutationFrame

\* the rows of table article after the pending statement of the request is committed
CommittedArticles(arts, kind, article_id, row) ==
    IF kind \in {"insert", "update"} THEN [arts EXCEPT ![article_id] = row]
    ELSE IF kind = "delete" THEN [arts EXCEPT ![article_id] = NoArticle]
    ELSE arts

\* a plausible slip: the commit moved into `finally`
SessionExitAlwaysCommit(r) ==
    /\ req[r].pc = "exit"
    /\ LET kind == req[r].tx_kind
           id == req[r].tx_article
       IN /\ articles' = CommittedArticles(articles, kind, id, req[r].tx_row)
          /\ article_tags' = IF kind = "delete" THEN CascadeLinks(article_tags, id)
                                               ELSE article_tags
          /\ favorites' = IF kind = "delete" THEN CascadeFavorites(favorites, id)
                                             ELSE favorites
          /\ comments' = IF kind = "delete" THEN CascadeComments(comments, id)
                                            ELSE comments
    /\ req' = [req EXCEPT ![r] =
          [@ EXCEPT !.pc = "done", !.session = "closed", !.tx_kind = NONE]]
    /\ UNCHANGED tags
    /\ MutationFrame

\* the session dependency after the handler: commit when it returned, rollback when
\* it raised, close in either case
SessionExit(r) ==
    /\ req[r].pc = "exit"
    /\ LET kind == IF req[r].result = "ok" THEN req[r].tx_kind ELSE NONE
           id == req[r].tx_article
       IN /\ articles' = CommittedArticles(articles, kind, id, req[r].tx_row)
          /\ article_tags' = IF kind = "delete" THEN CascadeLinks(article_tags, id)
                                               ELSE article_tags
          /\ favorites' = IF kind = "delete" THEN CascadeFavorites(favorites, id)
                                             ELSE favorites
          /\ comments' = IF kind = "delete" THEN CascadeComments(comments, id)
                                            ELSE comments
    /\ req' = [req EXCEPT ![r] =
          [@ EXCEPT !.pc = "done", !.session = "closed", !.tx_kind = NONE]]
    /\ UNCHANGED tags
    /\ MutationFrame

\* update_article / delete_article: get_by_slug, then the author of the article it
\* returned is compared with the caller
AuthorCheck(r, op, caller, slug, title, tag_list) ==
    /\ req[r].op = "idle"
    /\ caller \in UserIds(users)
    /\ LET start == [Idle EXCEPT !.op = op, !.session = "open", !.caller = caller,
                                 !.slug = slug, !.title = title,
                                 !.tags_patch = tag_list]
       IN IF SlugMatches(articles, slug) = {}
          THEN req' = [req EXCEPT ![r] =
                  [start EXCEPT !.pc = "exit", !.result = "ArticleNotFound"]]
          ELSE \E a \in SlugMatches(articles, slug) :
                  req' = [req EXCEPT ![r] =
                     IF articles[a].author_id # caller
                     THEN [start EXCEPT !.pc = "exit", !.result = "Forbidden",
                                        !.article = a, !.author = articles[a].author_id]
                     ELSE [start EXCEPT !.pc = "by_slug", !.article = a,
                                        !.author = articles[a].author_id]]
    /\ UNCHANGED <<articles, favorites, tags, article_tags, comments>>
    /\ MutationFrame

\* the rows `WHERE Article.slug == slug` selects
ExactSlug(arts, slug) == {a \in ArticleIds(arts) : arts[a].slug = slug}

UpdateArticleStart(r, caller, slug, title, tag_list) ==
    AuthorCheck(r, "update_article", caller, slug, title, tag_list)

\* ArticleService.update_by_slug: UPDATE article ... WHERE slug == :slug RETURNING,
\* scalar_one; a title brings the slug made of it and the code of the request's slug
UpdateBySlug(r) ==
    /\ req[r].op = "update_article" /\ req[r].pc = "by_slug"
    /\ IF ExactSlug(articles, req[r].slug) = {}
       THEN req' = [req EXCEPT ![r] = [@ EXCEPT !.pc = "exit", !.result = "NoResultFound"]]
       ELSE LET id == CHOOSE a \in ExactSlug(articles, req[r].slug) : TRUE
                row == IF req[r].title = NONE THEN articles[id]
                       ELSE [articles[id] EXCEPT
                               !.title = req[r].title,
                               !.slug = make_slug_from_title_and_code(
                                           req[r].title,
                                           get_slug_unique_part(req[r].slug))]
            IN req' = [req EXCEPT ![r] =
                  IF SlugTaken(articles, id, row.slug)
                  THEN [@ EXCEPT !.pc = "exit", !.result = "IntegrityError"]
                  ELSE [@ EXCEPT !.tx_kind = "update", !.tx_article = id, !.tx_row = row,
                                 !.pc = IF req[r].tags_patch = NoTagList THEN "exit"
                                        ELSE "replace_tags",
                                 !.result = IF req[r].tags_patch = NoTagList THEN "ok"
                                            ELSE NONE]]
    /\ UNCHANGED <<articles, favorites, tags, article_tags, comments>>
    /\ MutationFrame

\* ArticleService.update_by_slug with a tag list: DELETE the article's links, INSERT
\* INTO tag ... ON CONFLICT DO NOTHING, SELECT the tags of the list, INSERT one link
\* for each element of the list, commit; article_tag has the primary key
\* (article_id, tag_id)
UpdateReplaceTags(r) ==
    /\ req[r].op = "update_article" /\ req[r].pc = "replace_tags"
    /\ LET names == req[r].tags_patch
           id == req[r].tx_article
           catalog == insert_tags(tags, names)
       IN IF Len(names) # Cardinality(Range(names))
          THEN /\ req' = [req EXCEPT ![r] =
                     [@ EXCEPT !.pc = "exit", !.result = "IntegrityError"]]
               /\ UNCHANGED <<articles, tags, article_tags>>
          ELSE /\ articles' = [articles EXCEPT ![id] = req[r].tx_row]
               /\ tags' = catalog
               /\ article_tags' = CascadeLinks(article_tags, id)
                     \cup {<<id, TagId(catalog, n)>> : n \in Range(names)}
               /\ req' = [req EXCEPT ![r] =
                     [@ EXCEPT !.pc = "add_many", !.tx_kind = NONE]]
    /\ UNCHANGED <<favorites, comments>>
    /\ MutationFrame

\* update_article: `if payload.tags is not None: add_many(...)` after update_by_slug
UpdateAddMany(r) ==
    /\ req[r].op = "update_article" /\ req[r].pc = "add_many"
    /\ LET names == req[r].tags_patch
           returned == insert_tags_returning(tags, names)
           catalog == insert_tags(tags, names)
       IN IF returned = <<>>
          THEN /\ req' = [req EXCEPT ![r] =
                     [@ EXCEPT !.pc = "exit", !.result = "EmptyValuesError"]]
               /\ UNCHANGED <<tags, article_tags>>
          ELSE /\ tags' = catalog
               /\ article_tags' = article_tags \cup
                     {<<req[r].article, TagId(catalog, n)>> : n \in Range(returned)}
               /\ req' = [req EXCEPT ![r] = [@ EXCEPT !.pc = "exit", !.result = "ok"]]
    /\ UNCHANGED <<articles, favorites, comments>>
    /\ MutationFrame

DeleteArticleStart(r, caller, slug) ==
    AuthorCheck(r, "delete_article", caller, slug, NONE, NoTagList)

\* ArticleService.delete_by_slug: DELETE FROM article WHERE slug == :slug, left to the
\* commit of the session
DeleteBySlug(r) ==
    /\ req[r].op = "delete_article" /\ req[r].pc = "by_slug"
    /\ req' = [req EXCEPT ![r] =
          IF ExactSlug(articles, req[r].slug) = {}
          THEN [@ EXCEPT !.pc = "exit", !.result = "ok"]
          ELSE [@ EXCEPT !.pc = "exit", !.result = "ok", !.tx_kind = "delete",
                         !.tx_article = CHOOSE a \in ExactSlug(articles, req[r].slug) : TRUE]]
    /\ UNCHANGED <<articles, favorites, tags, article_tags, comments>>
    /\ MutationFrame

\* CommentService.create_comment_for_article: the article by its exact slug
CommentStart(r, caller, slug) ==
    /\ req[r].op = "idle"
    /\ caller \in UserIds(users)
    /\ Len(comments) < MaxComments
    /\ req' = [req EXCEPT ![r] =
          IF ExactSlug(articles, slug) = {}
          THEN [Idle EXCEPT !.op = "create_comment", !.session = "open",
                            !.caller = caller, !.slug = slug,
                            !.pc = "exit", !.result = "ArticleNotFound"]
          ELSE [Idle EXCEPT !.op = "create_comment", !.session = "open",
                            !.caller = caller, !.slug = slug, !.pc = "insert",
                            !.article = CHOOSE a \in ExactSlug(articles, slug) : TRUE]]
    /\ UNCHANGED <<articles, favorites, tags, article_tags, comments>>
    /\ MutationFrame

\* CommentService.create_comment_for_article: INSERT INTO comment, commit; article_id
\* is a foreign key
CommentInsert(r) ==
    /\ req[r].op = "create_comment" /\ req[r].pc = "insert"
    /\ IF articles[req[r].article] = NoArticle
       THEN /\ req' = [req EXCEPT ![r] =
                  [@ EXCEPT !.pc = "exit", !.result = "IntegrityError"]]
            /\ UNCHANGED comments
       ELSE /\ comments' = Append(comments, [article_id |-> req[r].article,
                                             author_id |-> req[r].caller])
            /\ req' = [req EXCEPT ![r] = [@ EXCEPT !.pc = "exit", !.result = "ok"]]
    /\ UNCHANGED <<articles, favorites, tags, article_tags>>
    /\ MutationFrame

\* delete_comment, CommentService.delete_comment_from_article: the article by its
\* exact slug
DeleteCommentStart(r, caller, slug, comment_id) ==
    /\ req[r].op = "idle"
    /\ caller \in UserIds(users)
    /\ req' = [req EXCEPT ![r] =
          LET start == [Idle EXCEPT !.op = "delete_comment", !.session = "open",
                                    !.caller = caller, !.slug = slug,
                                    !.comment_id = comment_id]
          IN IF ExactSlug(articles, slug) = {}
             THEN [start EXCEPT !.pc = "exit", !.result = "ArticleNotFound"]
             ELSE [start EXCEPT !.pc = "find_comment",
                                !.article = CHOOSE a \in ExactSlug(articles, slug) : TRUE]]
    /\ UNCHANGED <<articles, favorites, tags, article_tags, comments>>
    /\ MutationFrame

\* the comments of table comment that are not deleted
CommentIds(cs) == {k \in 1..Len(cs) : cs[k] # NoComment}

\* CommentService.delete_comment_from_article: SELECT comment WHERE id == :id AND
\* article_id == :article_id; a comment of another author raises
\* UserNotFoundException("You are not authorized to delete this comment.")
DeleteCommentFind(r) ==
    /\ req[r].op = "delete_comment" /\ req[r].pc = "find_comment"
    /\ LET id == req[r].comment_id IN
       req' = [req EXCEPT ![r] =
          IF id \notin CommentIds(comments) \/ comments[id].article_id # req[r].article
          THEN [@ EXCEPT !.pc = "exit", !.result = "CommentNotFound"]
          ELSE IF comments[id].author_id # req[r].caller
          THEN [@ EXCEPT !.pc = "exit", !.result = "UserNotFound"]
          ELSE [@ EXCEPT !.pc = "delete"]]
    /\ UNCHANGED <<articles, favorites, tags, article_tags, comments>>
    /\ MutationFrame

\* CommentService.delete_comment_from_article: DELETE FROM comment WHERE id == :id,
\* commit
DeleteCommentDelete(r) ==
    /\ req[r].op = "delete_comment" /\ req[r].pc = "delete"
    /\ comments' = [comments EXCEPT ![req[r].comment_id] = NoComment]
    /\ req' = [req EXCEPT ![r] = [@ EXCEPT !.pc = "exit", !.result = "ok"]]
    /\ UNCHANGED <<articles, favorites, tags, article_tags>>
    /\ MutationFrame

\* the orders in which a SELECT without ORDER BY may return the rows ids
Orders(ids) ==
    {f \in [1..Cardinality(ids) -> ids] :
        \A j, k \in 1..Cardinality(ids) : f[j] = f[k] => j = k}

\* get_comments, CommentService.get_comments_for_article: the article by its exact
\* slug, then SELECT comment WHERE article_id == :id, without ORDER BY
GetComments(r, slug) ==
    /\ req[r].op = "idle"
    /\ LET start == [Idle EXCEPT !.op = "get_comments", !.session = "open",
                                 !.slug = slug]
       IN IF ExactSlug(articles, slug) = {}
          THEN req' = [req EXCEPT ![r] =
                  [start EXCEPT !.pc = "exit", !.result = "ArticleNotFound"]]
          ELSE LET a == CHOOSE x \in ExactSlug(articles, slug) : TRUE IN
               \E f \in Orders({k \in CommentIds(comments) : comments[k].article_id = a}) :
                  req' = [req EXCEPT ![r] =
                     [start EXCEPT !.pc = "exit", !.result = "ok", !.article = a,
                                   !.listing = f, !.total = Len(f)]]
    /\ UNCHANGED <<articles, favorites, tags, article_tags, comments>>
    /\ MutationFrame

\* ArticleService.get_by_slug as a request of its own: the article and its tag list
GetBySlugTags(r, slug) ==
    /\ req[r].op = "idle"
    /\ IF SlugMatches(articles, slug) = {}
       THEN req' = [req EXCEPT ![r] =
               [Idle EXCEPT !.op = "get_by_slug", !.session = "open", !.slug = slug,
                            !.pc = "exit", !.result = "ArticleNotFound"]]
       ELSE \E a \in SlugMatches(articles, slug) :
               req' = [req EXCEPT ![r] =
                  [Idle EXCEPT !.op = "get_by_slug", !.session = "open", !.slug = slug,
                               !.pc = "exit", !.result = "ok", !.article = a,
                               !.author = articles[a].author_id,
                               !.count = favorite_count(favorites, a),
                               !.tag_list = article_tag_names(tags, article_tags, a)]]
    /\ UNCHANGED <<articles, favorites, tags, article_tags, comments>>
    /\ MutationFrame

\* ------------------------------------------------------------ listings
Min(a, b) == IF a < b THEN a ELSE b

\* the users that hold a favorite on the article
FavoriteUsers(favs, article_id) == {f[1] : f \in {g \in favs : g[2] = article_id}}

\* list_by_filters_v2: the rows of article LEFT JOIN article_tag, tag LEFT JOIN
\* favorite for one article, as <<tag, favorite.user_id>>, NONE and 0 where the outer
\* join finds no row
JoinedRows(catalog, links, favs, article_id) ==
    LET names == article_tag_names(catalog, links, article_id)
        holders == FavoriteUsers(favs, article_id)
    IN (IF names = {} THEN {NONE} ELSE names) \X (IF holders = {} THEN {0} ELSE holders)

\* list_by_filters_v2: the WHERE built from the filters given; `favorited` compares
\* favorite.user_id with the scalar subquery of the user of that name, NULL for no user
FilteredRows(us, arts, catalog, links, favs, article_id, tag, author, favorited) ==
    {row \in JoinedRows(catalog, links, favs, article_id) :
        /\ author = NONE \/ us[arts[article_id].author_id].username = author
        /\ tag = NONE \/ row[1] = tag
        /\ favorited = NONE
             \/ (get_by_username_or_none(us, favorited) # 0
                  /\ row[2] = get_by_username_or_none(us, favorited))}

\* the articles of table article
StoredArticles(arts) == {a \in ArticleIds(arts) : arts[a] # NoArticle}

\* list_by_filters_v2: GROUP BY article: the articles with a row left
FilterMatches(us, arts, catalog, links, favs, tag, author, favorited) ==
    {a \in StoredArticles(arts) :
        FilteredRows(us, arts, catalog, links, favs, a, tag, author, favorited) # {}}

\* func.string_agg(Tag.tag, ", ") over the rows of the group, split at the commas: a
\* tag as often as rows carry it
AggregatedTags(rows) ==
    {<<n, Cardinality({row \in rows : row[1] = n})>> :
        n \in {row[1] : row \in rows} \ {NONE}}

\* _build_article_dto_from_db_result, tags: the aggregate of the row, or, when it is
\* NULL, the tags of the article read again
build_tags(rows, catalog, links, article_id) ==
    IF AggregatedTags(rows) = {}
    THEN {<<n, 1>> : n \in article_tag_names(catalog, links, article_id)}
    ELSE AggregatedTags(rows)

\* LIMIT :limit OFFSET :offset of the rows in the order the database returns them
Page(order, limit, offset) == SubSeq(order, offset + 1, Min(offset + limit, Len(order)))

\* count_by_filters: count(article.id) over article JOIN article_tag, tag (when tag is
\* given) JOIN user (author) JOIN favorite (favorited)
count_by_filters(us, arts, catalog, links, favs, tag, author, favorited) ==
    Cardinality(
      {row \in StoredArticles(arts) \X (Range(catalog) \cup {NONE}) \X (UserIds(us) \cup {0}) :
        /\ IF tag = NONE THEN row[2] = NONE
           ELSE row[2] = tag /\ tag \in article_tag_names(catalog, links, row[1])
        /\ author = NONE \/ us[arts[row[1]].author_id].username = author
        /\ IF favorited = NONE THEN row[3] = 0
           ELSE /\ row[3] # 0
                /\ <<row[3], row[1]>> \in favs
                /\ row[3] = get_by_username_or_none(us, favorited)})

\* count_by_followings: count(article.id) over article JOIN follower
count_by_followings(arts, fols, user_id) ==
    Cardinality({a \in StoredArticles(arts) : <<user_id, arts[a].author_id>> \in fols})

\* list_by_followings_v2: article JOIN user JOIN article_tag JOIN tag, the author among
\* the users the viewer follows
FollowingMatches(arts, catalog, links, fols, user_id) ==
    {a \in StoredArticles(arts) :
        /\ article_tag_names(catalog, links, a) # {}
        /\ <<user_id, arts[a].author_id>> \in fols}

ListingFrame ==
    UNCHANGED <<users, articles, favorites, followers, tags, article_tags, comments,
                clock, wallet>>

\* a plausible slip: an unknown user in `favorited` raises
ListByFiltersStrict(r, viewer, tag, author, favorited, limit, offset) ==
    /\ req[r].op = "idle"
    /\ viewer \in UserIds(users) \cup {0}
    /\ LET start == [Idle EXCEPT !.op = "list_by_filters", !.session = "open",
                                 !.caller = viewer, !.tag = tag, !.author_name = author,
                                 !.favorited_by = favorited, !.limit = limit,
                                 !.offset = offset, !.pc = "exit"]
       IN req' = [req EXCEPT ![r] =
             IF favorited # NONE /\ get_by_username_or_none(users, favorited) = 0
             THEN [start EXCEPT !.result = "UserNotFound"]
             ELSE [start EXCEPT !.result = "ok"]]
    /\ ListingFrame

\* get_global_article_feed: list_by_filters_v2, which has no ORDER BY, then
\* count_by_filters; viewer 0 is a request without a token
ListByFilters(r, viewer, tag, author, favorited, limit, offset) ==
    /\ req[r].op = "idle"
    /\ viewer \in UserIds(users) \cup {0}
    /\ LET matches == FilterMatches(users, articles, tags, article_tags, favorites,
                                    tag, author, favorited)
           dto(a) ==
             [id |-> a,
              tags |-> build_tags(FilteredRows(users, articles, tags, article_tags,
                                               favorites, a, tag, author, favorited),
                                  tags, article_tags, a),
              favorited |-> viewer # 0 /\ favorite_exists(favorites, viewer, a),
              following |-> viewer # 0
                              /\ follower_exists(followers, viewer, articles[a].author_id),
              count |-> favorite_count(favorites, a)]
       IN \E order \in Orders(matches) :
            req' = [req EXCEPT ![r] =
               [Idle EXCEPT !.op = "list_by_filters", !.session = "open",
                            !.caller = viewer, !.tag = tag, !.author_name = author,
                            !.favorited_by = favorited, !.limit = limit,
                            !.offset = offset, !.pc = "exit", !.result = "ok",
                            !.feed = [k \in 1..Len(Page(order, limit, offset)) |->
                                         dto(Page(order, limit, offset)[k])],
                            !.total = count_by_filters(users, articles, tags,
                                          article_tags, favorites, tag, author,
                                          favorited)]]
    /\ ListingFrame

\* get_article_feed: list_by_followings_v2, which has no ORDER BY, then
\* count_by_followings; the viewer is the current user
ListByFollowings(r, viewer, limit, offset) ==
    /\ req[r].op = "idle"
    /\ viewer \in UserIds(users)
    /\ LET matches == FollowingMatches(articles, tags, article_tags, followers, viewer)
           dto(a) ==
             [id |-> a,
              tags |-> {<<n, 1>> : n \in article_tag_names(tags, article_tags, a)},
              favorited |-> favorite_exists(favorites, viewer, a),
              following |-> TRUE,
              count |-> favorite_count(favorites, a)]
       IN \E order \in Orders(matches) :
            req' = [req EXCEPT ![r] =
               [Idle EXCEPT !.op = "list_by_followings", !.session = "open",
                            !.caller = viewer, !.limit = limit, !.offset = offset,
                            !.pc = "exit", !.result = "ok",
                            !.feed = [k \in 1..Len(Page(order, limit, offset)) |->
                                         dto(Page(order, limit, offset)[k])],
                            !.total = count_by_followings(articles, followers, viewer)]]
    /\ ListingFrame

\* -------------------------------------------------- specification: follow graph
NextFollow ==
    \E r \in SeqReqs :
        \/ \E op \in {"follow", "unfollow"}, u \in UserIds(users), n \in FollowTargets :
              FollowStart(r, op, u, n)
        \/ FollowOwnProfile(r)
        \/ FollowLookup(r)
        \/ FollowRelation(r)
        \/ FollowDbExit(r)
        \/ FollowProfile(r)
        \/ SessionExit(r)
        \/ \E u \in UserIds(users), n \in Names \cup {"n9"} :
              UpdateStart(r, u, n, NONE, NONE, NONE, NONE)
        \/ UpdateCheckUsername(r)
        \/ UpdateCheckEmail(r)
        \/ UpdateWrite(r)
        \/ Respond(r)

SpecFollow == InitFavorite /\ [][NextFollow]_vars

\* two requests in flight: renames beside follows and unfollows
NextFollowRace ==
    \E r \in RaceReqs :
        \/ \E op \in {"follow", "unfollow"}, u \in UserIds(users), n \in FollowTargets :
              FollowStart(r, op, u, n)
        \/ FollowOwnProfile(r)
        \/ FollowLookup(r)
        \/ FollowRelation(r)
        \/ FollowDbExit(r)
        \/ FollowProfile(r)
        \/ SessionExit(r)
        \/ \E u \in UserIds(users), n \in {"n1", "n2", "n9"} :
              UpdateStart(r, u, n, NONE, NONE, NONE, NONE)
        \/ UpdateCheckUsername(r)
        \/ UpdateCheckEmail(r)
        \/ UpdateWrite(r)
        \/ Respond(r)

SpecFollowRace == InitFavorite /\ [][NextFollowRace]_vars

\* ------------------------------------------------- specification: articles
\* two registered users, no article yet
InitArticle ==
    /\ users = <<StoredUser("n1", "e1"), StoredUser("n2", "e2")>>
    /\ articles = <<>>
    /\ favorites = {}
    /\ followers = {}
    /\ tags = <<>>
    /\ article_tags = {}
    /\ comments = <<>>
    /\ clock = 0
    /\ wallet = {}
    /\ req = [r \in RaceReqs |-> Idle]

\* titles of one word; "c1" is also a code the generator may draw
Titles == {"t1", "c1"}
Codes == {"c1", "c2"}
TagLists == {<<>>, <<"x">>, <<"y">>, <<"x", "y">>, <<"x", "x">>}

\* slugs a client may ask for: the slugs articles can have, and a code alone
ArticleSlugInputs == {<<t, c>> : t \in Titles, c \in Codes} \cup {<<"c1">>}

\* articles are created, retitled, deleted, favorited and commented; tag lists of
\* one name, so that the links of an article are one
NextArticle ==
    \E r \in SeqReqs :
        \/ \E u \in UserIds(users), t \in Titles, c \in Codes, l \in {<<"x">>, <<"y">>} :
              CreateArticleAdd(r, u, t, c, l)
        \/ CreateArticleAddMany(r)
        \/ \E u \in UserIds(users), s \in ArticleSlugInputs, t \in Patch(Titles) :
              UpdateArticleStart(r, u, s, t, NoTagList)
        \/ UpdateBySlug(r)
        \/ \E u \in UserIds(users), s \in ArticleSlugInputs : DeleteArticleStart(r, u, s)
        \/ DeleteBySlug(r)
        \/ \E s \in ArticleSlugInputs : FavoriteStart(r, 2, s)
        \/ FavoriteExists(r)
        \/ FavoriteCreate(r)
        \/ FavoriteRespond(r)
        \/ \E s \in ArticleSlugInputs : CommentStart(r, 1, s)
        \/ CommentInsert(r)
        \/ \E s \in ArticleSlugInputs : GetBySlugTags(r, s)
        \/ SessionExit(r)
        \/ Respond(r)

SpecArticle == InitArticle /\ [][NextArticle]_vars

\* ----------------------------------------------------- specification: tags
\* one author creates articles with tag lists and replaces them
NextTags ==
    \E r \in SeqReqs :
        \/ \E c \in Codes, l \in TagLists : CreateArticleAdd(r, 1, "t1", c, l)
        \/ CreateArticleAddMany(r)
        \/ \E c \in Codes, t \in Patch({"c1"}), l \in TagLists \cup {NoTagList} :
              UpdateArticleStart(r, 1, <<"t1", c>>, t, l)
        \/ UpdateBySlug(r)
        \/ UpdateReplaceTags(r)
        \/ UpdateAddMany(r)
        \/ \E s \in ArticleSlugInputs : GetBySlugTags(r, s)
        \/ SessionExit(r)
        \/ Respond(r)

SpecTags == InitArticle /\ [][NextTags]_vars

\* two create requests in flight, each of its own author and code, both naming "x"
RaceTagList(r) == IF r = "r1" THEN <<"x", "y">> ELSE <<"x", "z">>

NextTagsRace ==
    \E r \in RaceReqs :
        \/ CreateArticleAdd(r, IF r = "r1" THEN 1 ELSE 2, "t1",
                            IF r = "r1" THEN "c1" ELSE "c2", RaceTagList(r))
        \/ CreateArticleAddMany(r)
        \/ \E s \in ArticleSlugInputs : GetBySlugTags(r, s)
        \/ SessionExit(r)
        \/ Respond(r)

SpecTagsRace == InitArticle /\ [][NextTagsRace]_vars

\* ------------------------------------------------- specification: comments
CommentIdInputs == 1..(MaxComments + 1)

NextComment ==
    \E r \in SeqReqs :
        \/ \E u \in UserIds(users), s \in SlugInputs : CommentStart(r, u, s)
        \/ CommentInsert(r)
        \/ \E u \in UserIds(users), s \in SlugInputs, k \in CommentIdInputs :
              DeleteCommentStart(r, u, s, k)
        \/ DeleteCommentFind(r)
        \/ DeleteCommentDelete(r)
        \/ \E s \in SlugInputs : GetComments(r, s)
        \/ SessionExit(r)
        \/ Respond(r)

SpecComment == InitFavorite /\ [][NextComment]_vars

\* ------------------------------------------------- specification: listings
\* two users who follow each other, an article of each, tags on both articles; rows
\* of table follower are what FollowerService.create writes
InitFeed ==
    /\ users = <<StoredUser("n1", "e1"), StoredUser("n2", "e2")>>
    /\ articles = <<StoredArticle(1, "t1", "c1"), StoredArticle(2, "t1", "c2")>>
    /\ favorites = {}
    /\ followers = {<<2, 1>>, <<1, 2>>}
    /\ tags = <<"x", "y">>
    /\ article_tags = {<<1, 1>>, <<1, 2>>, <<2, 1>>}
    /\ comments = <<>>
    /\ clock = 0
    /\ wallet = {}
    /\ req = [r \in RaceReqs |-> Idle]

\* values of the query parameters: a tag, a username of a user and of nobody
TagFilters == {NONE, "x", "y"}
AuthorFilters == {NONE, "n1", "n9"}
FavoritedFilters == {NONE, "n2", "n9"}
Limits == {1, 2}
Offsets == {0, 1}
StoredSlugs == {<<"t1", "c1">>, <<"t1", "c2">>}

NextFeed ==
    \E r \in SeqReqs :
        \/ \E v \in UserIds(users) \cup {0}, t \in TagFilters, a \in AuthorFilters,
              f \in FavoritedFilters, l \in Limits, o \in Offsets :
              ListByFilters(r, v, t, a, f, l, o)
        \/ \E v \in UserIds(users), l \in Limits, o \in Offsets :
              ListByFollowings(r, v, l, o)
        \/ \E u \in UserIds(users), s \in StoredSlugs : FavoriteStart(r, u, s)
        \/ FavoriteExists(r)
        \/ FavoriteCreate(r)
        \/ FavoriteRespond(r)
        \/ \E u \in UserIds(users), s \in StoredSlugs : UnfavoriteStart(r, u, s)
        \/ UnfavoriteExists(r)
        \/ UnfavoriteDelete(r)
        \/ UnfavoriteRespond(r)
        \/ \E l \in {<<>>, <<"x">>, <<"x", "y">>} :
              UpdateArticleStart(r, 1, <<"t1", "c1">>, NONE, l)
        \/ UpdateBySlug(r)
        \/ UpdateReplaceTags(r)
        \/ UpdateAddMany(r)
        \/ \E s \in StoredSlugs : GetBySlugTags(r, s)
        \/ \E v \in UserIds(users) \cup {0}, s \in StoredSlugs : GetArticleStart(r, v, s)
        \/ GetArticleRespond(r)
        \/ SessionExit(r)
        \/ Respond(r)

SpecFeed == InitFeed /\ [][NextFeed]_vars

\* ------------------------------------------------- specification: profiles
\* a plausible slip: the edge read from the profile's user to the viewer
GetProfileReversed(r, viewer, username) ==
    /\ req[r].op = "idle"
    /\ viewer \in UserIds(users) \cup {0}
    /\ LET id == get_by_username_or_none(users, username)
           start == [Idle EXCEPT !.op = "get_profile", !.pc = "exit",
                                 !.session = "open", !.caller = viewer,
                                 !.target = username, !.lookups = 1]
       IN req' = [req EXCEPT ![r] =
             IF id = 0
             THEN [start EXCEPT !.result = "ProfileNotFound"]
             ELSE [start EXCEPT !.result = "ok", !.uid = id,
                                !.username = users[id].username,
                                !.bio = users[id].bio,
                                !.image = users[id].image_url,
                                !.following =
                                    viewer # 0 /\ follower_exists(followers, id, viewer)]]
    /\ UNCHANGED followers
    /\ FollowFrame

\* get_user_profile: get_current_user_or_none gives the viewer or None;
\* get_profile_by_username reads the user by username (UserNotFoundException becomes
\* ProfileNotFoundException, 404), copies username, bio and image, and asks
\* _check_following for the edge (viewer, user) only `if current_user`
GetProfile(r, viewer, username) ==
    /\ req[r].op = "idle"
    /\ viewer \in UserIds(users) \cup {0}
    /\ LET id == get_by_username_or_none(users, username)
           start == [Idle EXCEPT !.op = "get_profile", !.pc = "exit",
                                 !.session = "open", !.caller = viewer,
                                 !.target = username, !.lookups = 1]
       IN req' = [req EXCEPT ![r] =
             IF id = 0
             THEN [start EXCEPT !.result = "ProfileNotFound"]
             ELSE [start EXCEPT !.result = "ok", !.uid = id,
                                !.username = users[id].username,
                                !.bio = users[id].bio,
                                !.image = users[id].image_url,
                                !.following =
                                    viewer # 0 /\ follower_exists(followers, viewer, id)]]
    /\ UNCHANGED followers
    /\ FollowFrame

\* two users, the second follows the first; rows of table follower are what
\* FollowerService.create writes
InitProfile ==
    /\ users = <<StoredUser("n1", "e1"), StoredUser("n2", "e2")>>
    /\ articles = <<>>
    /\ favorites = {}
    /\ followers = {<<2, 1>>}
    /\ tags = <<>>
    /\ article_tags = {}
    /\ comments = <<>>
    /\ clock = 0
    /\ wallet = {}
    /\ req = [r \in RaceReqs |-> Idle]

\* profiles are read while users change their name, bio and image
NextProfile ==
    \E r \in SeqReqs :
        \/ \E v \in UserIds(users) \cup {0}, n \in FollowTargets : GetProfile(r, v, n)
        \/ \E id \in 1..MaxUsers, n \in Patch({"n1", "n2", "n9"}), b \in Patch(Bios),
              i \in Patch(Images) :
                 UpdateStart(r, id, n, NONE, NONE, b, i)
        \/ UpdateCheckUsername(r)
        \/ UpdateCheckEmail(r)
        \/ UpdateWrite(r)
        \/ SessionExit(r)
        \/ Respond(r)

SpecProfile == InitProfile /\ [][NextProfile]_vars

\* ------------------------------------------------- specification: sessions
\* the steps of a request that is under way: the handler, the services it calls, and
\* the exit of the session dependency
SessionStep(r) ==
    \/ CreateArticleAddMany(r)
    \/ UpdateBySlug(r)
    \/ DeleteBySlug(r)
    \/ FollowOwnProfile(r)
    \/ FollowLookup(r)
    \/ FollowRelation(r)
    \/ FollowDbExit(r)
    \/ FollowProfile(r)
    \/ SessionExit(r)
    \/ Respond(r)

NextSession ==
    \E r \in SeqReqs :
        \/ \E u \in UserIds(users), c \in Codes : CreateArticleAdd(r, u, "t1", c, <<"x">>)
        \/ \E u \in UserIds(users), s \in ArticleSlugInputs, t \in Patch({"c1"}) :
              UpdateArticleStart(r, u, s, t, NoTagList)
        \/ \E u \in UserIds(users), s \in ArticleSlugInputs : DeleteArticleStart(r, u, s)
        \/ \E op \in {"follow", "unfollow"}, u \in UserIds(users), n \in FollowTargets :
              FollowStart(r, op, u, n)
        \/ SessionStep(r)

\* the event loop resumes every coroutine that can go on, and the database answers:
\* a request under way is not left waiting for ever; arrivals are not forced
SpecSession ==
    InitArticle /\ [][NextSession]_vars /\ \A r \in SeqReqs : WF_vars(SessionStep(r))

\* the committed store
Store == <<users, articles, favorites, followers, tags, article_tags, comments>>

\* ---------------------------------------------------- claims: user directory
Completes(r, op) == req'[r].op = op /\ req'[r].pc = "done" /\ req[r].pc # "done"

EmailHeld(us, email) == \E i \in UserIds(us) : us[i].email = email
NameHeld(us, username) == \E i \in UserIds(us) : us[i].username = username

\* C1: a register whose email and username are not in use succeeds and stores a row
\* under the returned id whose hash verifies the password; an authenticate with the
\* email and password of a stored row succeeds and its token carries that row's id.
C1_RegisterThenAuthenticate ==
    [][\A r \in SeqReqs :
        /\ (Completes(r, "register")
              /\ ~EmailHeld(users, req'[r].email) /\ ~NameHeld(users, req'[r].username))
           => /\ req'[r].result = "ok"
              /\ req'[r].uid \in UserIds(users') \ UserIds(users)
              /\ users'[req'[r].uid].email = req'[r].email
              /\ verify_password(req'[r].password, users'[req'[r].uid].password_hash)
              /\ req'[r].token.user_id = req'[r].uid
        /\ Completes(r, "login")
           => \A i \in UserIds(users) :
                 (users[i].email = req'[r].email
                    /\ users[i].password_hash = get_password_hash(req'[r].password))
                 => /\ req'[r].result = "ok"
                    /\ req'[r].uid = i
                    /\ req'[r].token.user_id = i
    ]_vars

C1_Witness ==
    \E r \in SeqReqs :
        /\ req[r].op = "login" /\ req[r].pc = "done" /\ req[r].result = "ok"
        /\ req[r].token.user_id = 2 /\ req[r].uid = 2

\* C2: a register with a held email and a fresh username ends EmailAlreadyTaken; with
\* a held username and a fresh email it ends UserNameAlreadyTaken; a register that
\* does not succeed leaves the user table as it was.
C2_DuplicateRegisterRejected ==
    [][\A r \in SeqReqs :
        /\ Completes(r, "register")
           => /\ (EmailHeld(users, req'[r].email) /\ ~NameHeld(users, req'[r].username))
                 => req'[r].result = "EmailAlreadyTaken"
              /\ (NameHeld(users, req'[r].username) /\ ~EmailHeld(users, req'[r].email))
                 => req'[r].result = "UserNameAlreadyTaken"
        /\ (req'[r].op = "register" /\ req'[r].result # "ok") => users' = users
    ]_vars

C2_Witness ==
    \E r \in SeqReqs :
        /\ req[r].op = "register" /\ req[r].pc = "done"
        /\ req[r].result = "UserNameAlreadyTaken"
        /\ NameHeld(users, req[r].username) /\ ~EmailHeld(users, req[r].email)

\* C3: no two users share a username or an email, and no request ends with the
\* database's uniqueness failure in place of the typed error.
C3_UniqueWithoutConstraintFailure ==
    /\ \A i, j \in UserIds(users) :
          i # j => users[i].username # users[j].username /\ users[i].email # users[j].email
    /\ \A r \in RaceReqs : req[r].result # "IntegrityError"

\* C4: an authenticate that finds no user for the email and one that finds a user
\* whose hash does not verify end with the same response, which carries no token.
FailedLogin == [result |-> "IncorrectLoginInput", uid |-> 0, token |-> NoToken]

C4_UndifferentiatedLoginFailure ==
    /\ \A r \in SeqReqs :
          (req[r].op = "login" /\ req[r].pc = "done"
             /\ \A i \in UserIds(users) :
                   users[i].email = req[r].email
                   => ~verify_password(req[r].password, users[i].password_hash))
          => [result |-> req[r].result, uid |-> req[r].uid, token |-> req[r].token]
                = FailedLogin
    /\ \A e1, e2 \in Emails, p \in Passwords :
          (/\ ~EmailHeld(users, e1)
           /\ \E i \in UserIds(users) :
                 users[i].email = e2 /\ ~verify_password(p, users[i].password_hash))
          => sign_in_user(users, e1, p, clock) = sign_in_user(users, e2, p, clock)

C4_Witness ==
    \E r \in SeqReqs :
        /\ req[r].op = "login" /\ req[r].pc = "done"
        /\ req[r].result = "IncorrectLoginInput"
        /\ EmailHeld(users, req[r].email)
        /\ \E e \in Emails : ~EmailHeld(users, e)

\* C5: an update whose username (email) is present, differs from the caller's and is
\* held by another user ends UserNameAlreadyTaken (EmailAlreadyTaken) and changes
\* nothing; one repeating the caller's own value succeeds; absent fields keep their
\* stored values.
C5_UpdateRevalidatesUniqueness ==
    [][\A r \in SeqReqs :
        Completes(r, "update")
        => LET id == req'[r].caller
               heldName == /\ req'[r].username # NONE
                           /\ req'[r].username # users[id].username
                           /\ \E j \in UserIds(users) \ {id} :
                                 users[j].username = req'[r].username
               heldEmail == /\ req'[r].email # NONE
                            /\ req'[r].email # users[id].email
                            /\ \E j \in UserIds(users) \ {id} :
                                  users[j].email = req'[r].email
           IN /\ heldName => req'[r].result = "UserNameAlreadyTaken" /\ users' = users
              /\ (~heldName /\ heldEmail)
                 => req'[r].result = "EmailAlreadyTaken" /\ users' = users
              /\ (~heldName /\ ~heldEmail)
                 => /\ req'[r].result = "ok"
                    /\ users' = [users EXCEPT ![id] =
                          UpdatedRow(users[id], req'[r].username, req'[r].email,
                                     req'[r].password, req'[r].bio, req'[r].image)]
    ]_vars

\* C6: a token issued for (user_id, username) carries the expiry issue time plus the
\* configured lifetime, and verifies to the same user_id and username at every
\* clock before that expiry; a token that is expired, malformed or signed with
\* another key is rejected, the request ends unauthorized and the store is untouched.
C6_TokenRoundTripUntilExpiry ==
    [][\A r \in SeqReqs :
        /\ ((Completes(r, "login") \/ Completes(r, "register")) /\ req'[r].result = "ok")
           => /\ req'[r].token.exp = clock + TokenExpiration
              /\ req'[r].token.user_id = req'[r].uid
              /\ req'[r].token.username = users'[req'[r].uid].username
              /\ \A now \in clock..(clock + TokenExpiration - 1) :
                    parse_jwt_token(req'[r].token, now)
                       = [result |-> "ok", user_id |-> req'[r].uid,
                          username |-> req'[r].token.username]
        /\ (req[r].op = "idle" /\ req'[r].op = "update")
           => LET t == req'[r].presented IN
              /\ (t \in wallet /\ clock < t.exp)
                 => /\ req'[r].pc # "done"
                    /\ req'[r].claims_user = t.user_id
                    /\ req'[r].claims_username = t.username
                    /\ req'[r].caller = t.user_id
              /\ (t \notin wallet \/ clock >= t.exp)
                 => /\ req'[r].pc = "done" /\ req'[r].result = "Unauthorized"
                    /\ users' = users
        /\ (req[r].op = "update" /\ req[r].result = "Unauthorized") => users' = users
    ]_vars

C6_Witness ==
    \E r \in SeqReqs :
        /\ req[r].op = "update" /\ req[r].pc = "done" /\ req[r].result = "Unauthorized"
        /\ req[r].presented \in wallet
        /\ req[r].presented.exp = clock
        /\ \E i \in UserIds(users) : users[i].bio = "b1"

\* --------------------------------------------------- claims: favorite index
Holders(favs, article_id) == {u \in UserIds(users) : <<u, article_id>> \in favs}

C10_SelfFollowRejectedBeforeLookup ==
    [][\A r \in SeqReqs :
        (req'[r].op \in {"follow", "unfollow"}
           /\ req'[r].target = users[req'[r].caller].username)
        => /\ followers' = followers
           /\ req'[r].lookups = 0
           /\ req'[r].pc \in {"own_profile", "exit", "done"}
           /\ req'[r].pc \in {"exit", "done"} => req'[r].result = "OwnProfileFollowing"
    ]_vars

C10_Witness ==
    \E r \in SeqReqs :
        /\ req[r].op = "unfollow" /\ req[r].pc = "done"
        /\ req[r].result = "OwnProfileFollowing"
        /\ req[r].target = users[req[r].caller].username
        /\ req[r].target = "n9"
        /\ req[r].lookups = 0

C12_FollowPersistsEdge ==
    [][\A r \in SeqReqs :
        /\ (Completes(r, "follow") /\ req'[r].result = "ok")
           => <<req'[r].caller, req'[r].uid>> \in followers'
        /\ (Completes(r, "unfollow") /\ req'[r].result = "ok")
           => <<req'[r].caller, req'[r].uid>> \notin followers'
        /\ req'[r].op \in {"follow", "unfollow"}
           => followers' \ {<<req'[r].caller, req'[r].uid>>}
                = followers \ {<<req'[r].caller, req'[r].uid>>}
    ]_vars

\* ------------------------------------------------------- claims: articles
LiveArticles(arts) == {a \in ArticleIds(arts) : arts[a] # NoArticle}

\* C13: no two articles have the same slug, and neither a create nor a title update
\* fails on the slug of another article: the slug it makes never collides.
C13_SlugsNeverCollide ==
    [][/\ \A a, b \in LiveArticles(articles') :
             a # b => articles'[a].slug # articles'[b].slug
       /\ \A r \in SeqReqs :
             req'[r].op \in {"create_article", "update_article"}
             => req'[r].result # "IntegrityError"
    ]_vars

\* C14: when a delete request has ended ok, get_by_slug with the slug of the request
\* finds no article, no article_tag, favorite or comment row refers to the article the
\* request resolved, and every other article is as before.
C14_DeleteRemovesArticleAndEdges ==
    [][\A r \in SeqReqs :
        (Completes(r, "delete_article") /\ req'[r].result = "ok")
        => LET id == req'[r].article IN
           /\ SlugMatches(articles', req'[r].slug) = {}
           /\ articles'[id] = NoArticle
           /\ \A l \in article_tags' : l[1] # id
           /\ \A f \in favorites' : f[2] # id
           /\ \A k \in 1..Len(comments') : comments'[k].article_id # id
           /\ \A a \in ArticleIds(articles) : a # id => articles'[a] = articles[a]
    ]_vars

\* C15: a step of an update or delete request changes or removes only article rows
\* whose author is the caller of the request.
C15_OnlyAuthorMutates ==
    [][\A r \in SeqReqs :
        req[r].op \in {"update_article", "delete_article"}
        => \A a \in ArticleIds(articles) :
              articles'[a] # articles[a] => articles[a].author_id = req[r].caller
    ]_vars

C17_CreateLinksEveryTag ==
    [][\A r \in SeqReqs :
        (req[r].op = "create_article" /\ req[r].pc = "add_many"
           /\ req'[r].result = "ok")
        => /\ article_tag_names(tags', article_tags', req[r].tx_article)
                 = Range(req[r].tags_patch)
           /\ \A j, k \in 1..Len(tags') : tags'[j] = tags'[k] => j = k
    ]_vars

LinksOf(links, article_id) == {l \in links : l[1] = article_id}

\* C19: the writes of a create with tag linking, and of an update with tag
\* replacement, reach the committed store together or not at all: the article row
\* becomes visible only in the step that also stores its tags and links, a create
\* that fails leaves no row and no link, and a step of an update either leaves
\* article, tag and article_tag as they were or stores the row and the new links at
\* once.
C19_MutationsAtomic ==
    [][\A r \in SeqReqs :
        LET id == req[r].tx_article
            names == req[r].tags_patch
        IN
        /\ (req[r].op = "create_article" /\ req[r].pc = "add_many")
           => \/ /\ req'[r].result = "ok"
                 /\ articles'[id] = req[r].tx_row
                 /\ tags' = insert_tags(tags, names)
                 /\ LinksOf(article_tags', id) =
                       {<<id, TagId(tags', n)>> : n \in Range(insert_tags_returning(tags, names))}
              \/ /\ req'[r].result # "ok"
                 /\ articles'[id] = NoArticle
                 /\ LinksOf(article_tags', id) = {}
                 /\ tags' = tags
        /\ (req[r].op = "create_article" /\ req[r].pc = "exit" /\ req[r].result # "ok")
           => <<articles', tags', article_tags'>> = <<articles, tags, article_tags>>
        /\ (req[r].op = "update_article" /\ req[r].pc \in {"by_slug", "replace_tags"})
           => \/ <<articles', tags', article_tags'>> = <<articles, tags, article_tags>>
              \/ /\ req'[r].result = NONE
                 /\ articles'[id] = req[r].tx_row
                 /\ tags' = insert_tags(tags, names)
                 /\ LinksOf(article_tags', id) =
                       {<<id, TagId(tags', n)>> : n \in Range(names)}
        /\ (req[r].op = "update_article" /\ req[r].pc = "exit" /\ req[r].result # "ok")
           => <<articles', tags', article_tags'>> = <<articles, tags, article_tags>>
    ]_vars

\* an update that changed the title in its session and then failed on the links: the
\* stored row keeps the old title
C19_Witness ==
    \E r \in SeqReqs :
        /\ req[r].op = "update_article" /\ req[r].pc = "done"
        /\ req[r].result = "IntegrityError"
        /\ req[r].tx_article # 0
        /\ req[r].tx_row.title # articles[req[r].tx_article].title

\* C18: with two create requests in flight that name the same new tag, the add_many
\* step of each of them does not fail, leaves its article linked to every tag it
\* named, and leaves the catalog with each name once.
C18_ConcurrentTagCreation ==
    [][\A r \in RaceReqs :
        (req[r].op = "create_article" /\ req[r].pc = "add_many" /\ req'[r] # req[r])
        => /\ req'[r].result = "ok"
           /\ Range(req[r].tags_patch)
                \subseteq article_tag_names(tags', article_tags', req[r].tx_article)
           /\ \A j, k \in 1..Len(tags') : tags'[j] = tags'[k] => j = k
    ]_vars

\* C20: a session that a request has opened, the one of the session dependency or
\* the second one that follow_user / unfollow_user open, is closed later on whatever
\* way the request takes, and once a request has failed none of its steps changes
\* the committed store: what it had executed and not committed is rolled back.
C20_SessionsClosedAndRolledBack ==
    /\ \A r \in SeqReqs : (req[r].session = "open") ~> (req[r].session = "closed")
    /\ \A r \in SeqReqs : (req[r].db = "open") ~> (req[r].db = "closed")
    /\ [][\A r \in SeqReqs :
            (req[r].result \notin {NONE, "ok"} /\ req'[r] # req[r])
            => /\ Store' = Store
               /\ req'[r].session # "open" => req'[r].tx_kind = NONE
       ]_vars

\* a create whose INSERT of the article was executed and whose add_many failed: the
\* session is closed and the row is not in the store
C20_Witness ==
    \E r \in SeqReqs :
        /\ req[r].op = "create_article" /\ req[r].pc = "done"
        /\ req[r].result = "EmptyValuesError"
        /\ req[r].session = "closed"
        /\ req[r].tx_article # 0
        /\ articles[req[r].tx_article] = NoArticle

\* ------------------------------------------------------- claims: comments
\* C21: a delete of a comment ends with ArticleNotFound for a slug of no article, with
\* CommentNotFound when the article has no comment of that id, with NotAuthorized, the
\* comment left in place, when the comment is of another author, and otherwise removes
\* the comment; a list of the article's comments holds no deleted comment.
C21_CommentDeleteAuthorized ==
    [][\A r \in SeqReqs :
        LET id == req'[r].comment_id
            found == ExactSlug(articles, req'[r].slug)
            under == id \in CommentIds(comments)
                        /\ comments[id].article_id \in found
        IN
        /\ (req'[r].op = "delete_comment" /\ req'[r].pc = "exit" /\ req[r].pc # "exit")
           => IF found = {} THEN req'[r].result = "ArticleNotFound" /\ comments' = comments
              ELSE IF ~under THEN req'[r].result = "CommentNotFound" /\ comments' = comments
              ELSE IF comments[id].author_id # req'[r].caller
              THEN req'[r].result = "NotAuthorized" /\ comments' = comments
              ELSE req'[r].result = "ok" /\ id \notin CommentIds(comments')
        /\ (req'[r].op = "get_comments" /\ req'[r].result = "ok")
           => Range(req'[r].listing) \subseteq CommentIds(comments')
    ]_vars

C25_ViewerRelativeFlags ==
    \A r \in SeqReqs :
        LET q == req[r] IN
        (q.op = "get_article" /\ q.pc = "done" /\ SlugMatches(articles, q.slug) # {})
        => /\ q.result = "ok"
           /\ q.favorited = (q.caller # 0 /\ <<q.caller, q.article>> \in favorites)
           /\ q.following = (q.caller # 0 /\ <<q.caller, q.author>> \in followers)
           /\ q.count = favorite_count(favorites, q.article)

created_at(article_id) == article_id

\* C27: every page of the feed and of the filtered listing is ordered newest-created
\* first: of two articles on a page, the earlier one was not created before the
\* later one.
C27_NewestFirst ==
    \A r \in SeqReqs :
        req[r].op \in {"list_by_filters", "list_by_followings"} =>
           \A i, j \in 1..Len(req[r].feed) :
              i < j => created_at(req[r].feed[i].id) >= created_at(req[r].feed[j].id)

\* C28: listForArticle fails with ArticleNotFound for a slug no article has;
\* otherwise it returns exactly the comments of that article, oldest first (comment
\* ids are given in insertion order), so that the sequence is determined by the store.
C28_CommentsInInsertionOrder ==
    \A r \in SeqReqs :
        req[r].op = "get_comments" =>
           IF ExactSlug(articles, req[r].slug) = {}
           THEN req[r].result = "ArticleNotFound"
           ELSE /\ req[r].result = "ok"
                /\ Range(req[r].listing) =
                      {k \in CommentIds(comments) :
                          comments[k].article_id \in ExactSlug(articles, req[r].slug)}
                /\ \A i, j \in 1..Len(req[r].listing) :
                      i < j => req[r].listing[i] < req[r].listing[j]

\* C29: an article that getBySlug returns has the requested slug as its stored slug,
\* and a slug that no article has yields ArticleNotFound, whatever other slugs hold
\* its unique part.
C29_GetBySlugExact ==
    \A r \in SeqReqs :
        req[r].op = "get_by_slug" =>
           IF ExactSlug(articles, req[r].slug) = {}
           THEN req[r].result = "ArticleNotFound"
           ELSE /\ req[r].result = "ok"
                /\ articles[req[r].article].slug = req[r].slug

\* C30: every article of a listing carries its complete tag set, each tag once,
\* whatever the number of users who favorited it and whatever tag filter was given:
\* the tags getBySlug reports for it.
C30_ListingTagsComplete ==
    \A r \in SeqReqs :
        req[r].op \in {"list_by_filters", "list_by_followings"} =>
           \A k \in 1..Len(req[r].feed) :
              req[r].feed[k].tags =
                 {<<n, 1>> : n \in article_tag_names(tags, article_tags, req[r].feed[k].id)}

====
